---- MODULE Spec2Model ----
(***************************************************************************)
(* Bill-Monitor (src/Bill_Monitor.py): bill-number normalisation, the      *)
(* LegiScan search client, the record projector and the Streamlit session  *)
(* store.  Strings are sequences of one-character strings.                 *)
(***************************************************************************)
EXTENDS Integers, Sequences, FiniteSets, TLC

VARIABLES
  \* normalize_bill applied to one input
  nbill, nstate, npc, nclean, nmid, nhits, nout, nout2,
  \* one call of search_bill_single
  qquery, qresp, qpc, qresult,
  \* one call of search_bill_id
  sbill, sstate, spc, variants, idx, calls, sresult,
  \* one call of process_bill
  pdetail, ppc, pflat, psummary,
  \* st.session_state and what the last script run did
  flat_data, summary_data, search_results, lastAction, lastError, fetched,
  cleared

normVars == <<nbill, nstate, npc, nclean, nmid, nhits, nout, nout2>>
singleVars == <<qquery, qresp, qpc, qresult>>
idVars == <<sbill, sstate, spc, variants, idx, calls, sresult>>
projVars == <<pdetail, ppc, pflat, psummary>>
sessionVars ==
  <<flat_data, summary_data, search_results, lastAction, lastError, fetched, cleared>>
vars == <<normVars, singleVars, idVars, projVars, sessionVars>>

(* ------------------------------ bounds -------------------------------- *)
\* longest raw bill string handed to normalize_bill
MaxBillLen == 4

(* --------------------------- character classes ------------------------ *)
\* [A-Z] restricted to the letters that occur in STATE_PREFIX_MAP
UpperLetters == {"A", "B", "D", "F", "H", "L", "S"}
\* [0-9] restricted to a zero and a non-zero digit
Digits == {"0", "1"}
\* \s restricted to the blank
Whitespace == {" "}
\* the characters of raw user input: letters, a lower-case letter, digits,
\* blank and one of the punctuation marks normalize_bill deletes
BillChars == {"H", "B", "S", "b", "0", "1", " ", "."}

\* str.upper, one character
UpperChar(c) ==
  CASE c = "b" -> "B"
    [] c = "h" -> "H"
    [] c = "s" -> "S"
    [] c = "d" -> "D"
    [] c = "t" -> "T"
    [] c = "x" -> "X"
    [] OTHER -> c

\* str.upper
upper(s) == [i \in 1..Len(s) |-> UpperChar(s[i])]

RECURSIVE Run(_, _, _)
\* length of the longest run of characters of S in s that starts at index i
Run(s, i, S) == IF i <= Len(s) /\ s[i] \in S THEN 1 + Run(s, i + 1, S) ELSE 0

RECURSIVE TrailRun(_, _, _)
\* length of the longest run of characters of S in s that ends at index i
TrailRun(s, i, S) == IF i >= 1 /\ s[i] \in S THEN 1 + TrailRun(s, i - 1, S) ELSE 0

\* str.strip
strip(s) ==
  LET a == Run(s, 1, Whitespace)
  IN  IF a = Len(s) THEN <<>>
      ELSE SubSeq(s, a + 1, Len(s) - TrailRun(s, Len(s), Whitespace))

\* s.replace(c, "") for every character c of S
RemoveChars(s, S) == SelectSeq(s, LAMBDA c : c \notin S)

RECURSIVE CollapseWhitespace(_)
\* re.sub(r"\s+", " ", s)
CollapseWhitespace(s) ==
  IF s = <<>> THEN <<>>
  ELSE IF s[1] \in Whitespace
       THEN <<" ">> \o CollapseWhitespace(SubSeq(s, Run(s, 1, Whitespace) + 1, Len(s)))
       ELSE <<s[1]>> \o CollapseWhitespace(Tail(s))

\* str.startswith
StartsWith(s, p) == Len(s) >= Len(p) /\ SubSeq(s, 1, Len(p)) = p

RECURSIVE ReplaceAll(_, _, _)
\* s.replace(old, new): every occurrence, left to right
ReplaceAll(s, old, new) ==
  IF Len(s) < Len(old) \/ old = <<>> THEN s
  ELSE IF StartsWith(s, old)
       THEN new \o ReplaceAll(SubSeq(s, Len(old) + 1, Len(s)), old, new)
       ELSE <<s[1]>> \o ReplaceAll(Tail(s), old, new)

RECURSIVE ReplaceFirst(_, _, _)
\* s.replace(old, new, 1): the leftmost occurrence only
ReplaceFirst(s, old, new) ==
  IF Len(s) < Len(old) \/ old = <<>> THEN s
  ELSE IF StartsWith(s, old)
       THEN new \o SubSeq(s, Len(old) + 1, Len(s))
       ELSE <<s[1]>> \o ReplaceFirst(Tail(s), old, new)

\* the jurisdictions of the model: the six with a prefix table and one without
States == {"Iowa", "Maine", "Nebraska", "New Jersey", "New Hampshire",
           "Massachusetts", "Texas"}

\* STATE_PREFIX_MAP: per jurisdiction the (wrong, correct) pairs in dict order
STATE_PREFIX_MAP ==
  [ Iowa |-> << << <<"H","B">>, <<"H","F">> >>, << <<"S","B">>, <<"S","F">> >> >>,
    Maine |-> << << <<"H","B">>, <<"L","D">> >>, << <<"S","B">>, <<"L","D">> >> >>,
    Nebraska |-> << << <<"H","B">>, <<"L","B">> >>, << <<"S","B">>, <<"L","B">> >> >> ]
  @@ ("New Jersey" :> << << <<"H","B">>, <<"A">> >>, << <<"S","B">>, <<"S">> >> >>)
  @@ ("New Hampshire" :> << << <<"H","B">>, <<"H">> >>, << <<"S","B">>, <<"S">> >> >>)
  @@ ("Massachusetts" :> << << <<"H","B">>, <<"H">> >>, << <<"S","B">>, <<"S">> >> >>)

\* the table of a jurisdiction, empty when it has none
PrefixTable(state_full) ==
  IF state_full \in DOMAIN STATE_PREFIX_MAP THEN STATE_PREFIX_MAP[state_full] ELSE <<>>

RECURSIVE ApplyPrefixes(_, _)
\* the loop over the table: every entry is tried in turn against the current
\* string (there is no break); hits counts the entries that substituted
ApplyPrefixes(bill, entries) ==
  IF entries = <<>> THEN [bill |-> bill, hits |-> 0]
  ELSE LET e == Head(entries)
           hit == StartsWith(bill, e[1])
           b2 == IF hit THEN ReplaceFirst(bill, e[1], e[2]) ELSE bill
           rest == ApplyPrefixes(b2, Tail(entries))
       IN  [bill |-> rest.bill, hits |-> rest.hits + (IF hit THEN 1 ELSE 0)]

RECURSIVE SplitRule(_)
\* re.sub(r"([A-Z]+)\s*0*([0-9]+[A-Z]*)", r"\1 \2", s): leftmost matches,
\* greedy with backtracking (0* gives back its last zero when no digit follows)
SplitRule(s) ==
  IF s = <<>> THEN <<>>
  ELSE IF s[1] \notin UpperLetters THEN <<s[1]>> \o SplitRule(Tail(s))
  ELSE LET nl == Run(s, 1, UpperLetters)
           ns == Run(s, nl + 1, Whitespace)
           p  == nl + ns + 1
           nz == Run(s, p, {"0"})
           nd == Run(s, p + nz, Digits)
           matched == nd > 0 \/ nz > 0
           g2 == IF nd > 0 THEN p + nz ELSE p + nz - 1
           de == IF nd > 0 THEN p + nz + nd - 1 ELSE p + nz - 1
           me == de + Run(s, de + 1, UpperLetters)
       IN  IF matched
           THEN SubSeq(s, 1, nl) \o <<" ">> \o SubSeq(s, g2, me)
                  \o SplitRule(SubSeq(s, me + 1, Len(s)))
           ELSE <<s[1]>> \o SplitRule(Tail(s))

\* lines 64-66: strip, upper, delete . ( ), collapse whitespace
CleanStep(bill) ==
  CollapseWhitespace(RemoveChars(upper(strip(bill)), {".", "(", ")"}))

\* normalize_bill
normalize_bill(bill, state_full) ==
  strip(SplitRule(ApplyPrefixes(CleanStep(bill), PrefixTable(state_full)).bill))

(* ------------------------- search_bill_single ------------------------- *)
\* most items in one search response
MaxItems == 2

\* bill_number strings of the candidates
BillNumbers == { <<"H","B","1">>, <<"H","B"," ","1","0">> }
\* bill_id values: the API's ids are positive integers
BillIds == {1, 2}
\* relevance scores; a missing relevance counts 0
Relevances == {1}
\* last_action_date values; ISO dates compare as strings in date order, so a
\* date is its rank, and the default "" of a missing date ranks 0
Dates == {1}

\* the result objects of a getSearch response; "relevance" and
\* "last_action_date" may be missing from an object
Candidates ==
  [ bill_id : BillIds, bill_number : BillNumbers,
    relevance : Relevances, last_action_date : Dates ]
  \cup [ bill_id : BillIds, bill_number : BillNumbers, relevance : Relevances ]
  \cup [ bill_id : BillIds, bill_number : BillNumbers, last_action_date : Dates ]
  \cup [ bill_id : BillIds, bill_number : BillNumbers ]

RECURSIVE SeqsUpTo(_, _)
\* all sequences over S of length at most n
SeqsUpTo(S, n) ==
  IF n = 0 THEN {<<>>}
  ELSE LET shorter == SeqsUpTo(S, n - 1)
       IN  shorter \cup {Append(s, c) : s \in {t \in shorter : Len(t) = n - 1}, c \in S}

\* the three shapes of "searchresult" that hold the items its, and the
\* response without the key (data.get("searchresult", {}))
SearchResults(its) ==
  { [shape |-> "list", results |-> its],
    [shape |-> "dict", results |-> its],
    [shape |-> "mixed",
     entries |-> <<[digitkey |-> FALSE, value |-> [page |-> 1]]>>
                   \o [i \in 1..Len(its) |-> [digitkey |-> TRUE, value |-> its[i]]]] }

\* what one GET can come to: the request raises (network, timeout), the body
\* is not JSON, or a JSON object with a status
ResponsesOver(C, maxItems) ==
  { [kind |-> "transport"], [kind |-> "malformed"],
    [kind |-> "json", status |-> "ERROR", searchresult |-> [shape |-> "missing"]],
    [kind |-> "json", status |-> "OK", searchresult |-> [shape |-> "missing"]] }
  \cup { [kind |-> "json", status |-> "OK", searchresult |-> sr] :
           sr \in UNION { SearchResults(its) : its \in SeqsUpTo(C, maxItems) } }

\* the responses to a single-term search
Responses(maxItems) == ResponsesOver(Candidates, maxItems)

\* _iter_search_items
iter_search_items(sr) ==
  CASE sr.shape = "list" -> sr.results
    [] sr.shape = "dict" -> sr.results
    [] sr.shape = "mixed" ->
         LET kept == SelectSeq(sr.entries, LAMBDA e : e.digitkey)
         IN  [i \in 1..Len(kept) |-> kept[i].value]
    [] OTHER -> <<>>

\* _normalize
normalize_num(num) == SelectSeq(upper(num), LAMBDA c : c \in UpperLetters \cup Digits)

\* x.get("relevance", 0)
RelevanceKey(it) == IF "relevance" \in DOMAIN it THEN it.relevance ELSE 0
\* x.get("last_action_date", "")
DateKey(it) == IF "last_action_date" \in DOMAIN it THEN it.last_action_date ELSE 0

\* comparison of the relevance alone
KeyLessRelevanceOnly(a, b) == RelevanceKey(a) < RelevanceKey(b)

\* tuple comparison of the sort keys: key(a) < key(b)
KeyLess(a, b) ==
  \/ RelevanceKey(a) < RelevanceKey(b)
  \/ RelevanceKey(a) = RelevanceKey(b) /\ DateKey(a) < DateKey(b)

RECURSIVE InsertDesc(_, _)
\* x put into a descending list behind every element whose key is not less
InsertDesc(x, s) ==
  IF s = <<>> THEN <<x>>
  ELSE IF KeyLess(s[1], x) THEN <<x>> \o s
       ELSE <<s[1]>> \o InsertDesc(x, Tail(s))

RECURSIVE SortedDesc(_)
\* sorted(pool, key=..., reverse=True): stable, equal keys keep their order
SortedDesc(s) ==
  IF s = <<>> THEN <<>>
  ELSE InsertDesc(s[Len(s)], SortedDesc(SubSeq(s, 1, Len(s) - 1)))

\* the exact matches of line 101
ExactMatches(items, query) ==
  SelectSeq(items, LAMBDA it : normalize_num(it.bill_number) = normalize_num(query))

\* cand_pool = items
CandPoolUnfiltered(items, query) == items

\* cand_pool = exact or items
CandPool(items, query) ==
  IF ExactMatches(items, query) # <<>> THEN ExactMatches(items, query) ELSE items

\* the pair (None, None)
NotFound == [raised |-> FALSE, found |-> FALSE]
\* an exception leaving the function
Raised == [raised |-> TRUE, found |-> FALSE]

\* search_bill_single, given the response the GET produced
search_bill_single(resp, query) ==
  IF resp.kind = "transport" THEN Raised
  ELSE IF resp.kind = "malformed" THEN Raised
  ELSE IF resp.status # "OK" THEN NotFound
  ELSE LET items == iter_search_items(resp.searchresult)
       IN  IF items = <<>> THEN NotFound
           ELSE LET cand == SortedDesc(CandPool(items, query))[1]
                IN  [raised |-> FALSE, found |-> TRUE,
                     bill_id |-> cand.bill_id, cand |-> cand]

(* --------------------------- search_bill_id --------------------------- *)
\* longest raw bill number handed to search_bill_id
MaxSearchLen == 3

SearchChars == {"H", "B", "1", " "}
SearchStates == {"Texas", "Nebraska"}

\* the responses to a variant's search: each kind of miss, or one candidate
VariantResponses == Responses(1)

\* the set of line 108
VariantSet(bill_num, state_full) ==
  { normalize_bill(bill_num, state_full),
    bill_num,
    RemoveChars(bill_num, {" "}),
    SelectSeq(bill_num, LAMBDA c : c \in Digits) }

\* list(set): the orders a set can be listed in
Orderings(S) ==
  { s \in [1..Cardinality(S) -> S] : \A i, j \in DOMAIN s : i # j => s[i] # s[j] }

\* if not bill_id:
TruthyInverted(r) == ~(r.found /\ r.bill_id # 0)

\* if bill_id:
Truthy(r) == r.found /\ r.bill_id # 0

(* ------------------------------ process_bill --------------------------- *)
\* most sponsors of a bill
MaxSponsors == 4

\* Python's None
None == "None"
\* JSON null where an object is expected
Null == [null |-> TRUE]
\* the empty dict {}
EmptyDict == <<>>

\* d.get(k)
Get(d, k) == IF k \in DOMAIN d THEN d[k] ELSE None

\* bill_detail.get("session", {}) or {}
SessionOf(bill_detail) ==
  IF "session" \in DOMAIN bill_detail /\ "null" \notin DOMAIN bill_detail.session
  THEN bill_detail.session ELSE EmptyDict

\* bill_detail.get("sponsors", [])
SponsorsOf(bill_detail) ==
  IF "sponsors" \in DOMAIN bill_detail THEN bill_detail.sponsors ELSE <<>>

\* sum(1 for sp in sponsors if sp.get("party") == code), any case of the code
PartyCountAnyCase(sponsors, code) ==
  Len(SelectSeq(sponsors, LAMBDA sp :
        "party" \in DOMAIN sp /\ UpperChar(sp.party) = code))

\* sum(1 for sp in sponsors if sp.get("party") == code)
PartyCount(sponsors, code) ==
  Len(SelectSeq(sponsors, LAMBDA sp : Get(sp, "party") = code))

\* process_bill: the flat row and the summary row of one bill detail
process_bill(bill_detail) ==
  LET s == SessionOf(bill_detail)
  IN  [ flat |->
          [ bill_id |-> Get(bill_detail, "bill_id"),
            state |-> Get(bill_detail, "state"),
            bill_number |-> Get(bill_detail, "bill_number"),
            title |-> Get(bill_detail, "title"),
            last_action |-> Get(bill_detail, "last_action"),
            last_action_date |-> Get(bill_detail, "last_action_date"),
            session_start |-> Get(s, "year_start"),
            session_end |-> Get(s, "year_end") ],
        summary |->
          [ state |-> Get(bill_detail, "state"),
            bill_number |-> Get(bill_detail, "bill_number"),
            title |-> Get(bill_detail, "title"),
            dem_sponsors |-> PartyCount(SponsorsOf(bill_detail), "D"),
            rep_sponsors |-> PartyCount(SponsorsOf(bill_detail), "R"),
            session_start |-> Get(s, "year_start"),
            session_end |-> Get(s, "year_end"),
            last_action_date |-> Get(bill_detail, "last_action_date"),
            last_action |-> Get(bill_detail, "last_action"),
            completed |-> Get(bill_detail, "completed") ] ]

\* the sponsor objects: a party code, or no "party" key
Sponsors ==
  { [party |-> "D"], [party |-> "R"], [party |-> "I"], [party |-> "d"],
    [name |-> "Doe"] }

\* the "session" values of a bill: an object, an object without the years, null
Sessions ==
  { [year_start |-> "2023", year_end |-> "2024"], [session_id |-> "7"], Null }

\* the bill of a getBill response, with and without "session" and "sponsors"
BillWith(sp, se) ==
  [ bill_id |-> 1, state |-> "TX", bill_number |-> "HB1", title |-> "Water Act",
    last_action |-> "Passed", last_action_date |-> "2024-05-01",
    session |-> se, sponsors |-> sp, completed |-> 1 ]

ProjectDetails ==
  { BillWith(sp, se) : sp \in SeqsUpTo(Sponsors, MaxSponsors), se \in Sessions }
  \cup { [ bill_id |-> 2, state |-> "NE", bill_number |-> "LB2", title |-> "Road Act",
           completed |-> 0, sponsors |-> sp ] : sp \in SeqsUpTo(Sponsors, MaxSponsors) }
  \cup { [ bill_id |-> 2, state |-> "NE", bill_number |-> "LB2", session |-> se ] :
           se \in Sessions }

(* ------------------------ search_bills_by_keyword ---------------------- *)
\* the default of the max_results parameter
max_results == 200
\* most items in a keyword-search response
MaxResults == 2

\* the result objects of a keyword search: a complete one, and one with the
\* alternative keys "number" and "short_title" and an empty state
KeywordItems ==
  { [ bill_id |-> 1, state |-> <<"t","x">>, bill_number |-> "HB1",
      title |-> "Water Act", relevance |-> 90, last_action_date |-> "2024-05-01" ],
    [ bill_id |-> 2, state |-> <<>>, number |-> "LB2", title |-> "",
      short_title |-> "Roads" ] }

KeywordResponses == ResponsesOver(KeywordItems, MaxResults)

\* the state filter: None ("All") as the empty string, or an abbreviation
KeywordStates == { <<>>, <<"N","E">> }
\* what the user typed into "Keyword(s)"
Keywords == { <<" ">>, <<"t","a","x">> }

\* a or b, for strings and None
OrElse(a, b) == IF a = None \/ a = "" THEN b ELSE a

\* (it.get("state") or state_abbr or "").upper()
RowState(it, state_abbr) ==
  upper(IF "state" \in DOMAIN it /\ it.state # <<>> THEN it.state ELSE state_abbr)

\* the dict appended to out for one item
ResultRow(it, state_abbr) ==
  [ bill_id |-> Get(it, "bill_id"),
    state |-> RowState(it, state_abbr),
    bill_number |-> OrElse(Get(it, "bill_number"), Get(it, "number")),
    title |-> OrElse(OrElse(Get(it, "title"), Get(it, "short_title")), ""),
    relevance |-> Get(it, "relevance"),
    last_action_date |-> Get(it, "last_action_date") ]

\* search_bills_by_keyword, given the response the GET produced
search_bills_by_keyword(state_abbr, resp, max) ==
  IF resp.kind = "transport" THEN [raised |-> TRUE, rows |-> <<>>]
  ELSE IF resp.kind = "malformed" THEN [raised |-> FALSE, rows |-> <<>>]
  ELSE IF resp.status # "OK" THEN [raised |-> FALSE, rows |-> <<>>]
  ELSE LET items == iter_search_items(resp.searchresult)
           kept == SubSeq(items, 1, IF Len(items) < max THEN Len(items) ELSE max)
       IN  [raised |-> FALSE,
            rows |-> [i \in 1..Len(kept) |-> ResultRow(kept[i], state_abbr)]]

(* -------------------------------- get_bill ----------------------------- *)
\* the bills the detail API serves in a session
SessionDetails ==
  { BillWith(<<[party |-> "D"], [party |-> "R"]>>,
             [year_start |-> "2023", year_end |-> "2024"]),
    [ bill_id |-> 2, state |-> "NE", bill_number |-> "LB2", title |-> "Road Act",
      completed |-> 0, sponsors |-> <<>> ],
    [ bill_id |-> 2, state |-> "NE", bill_number |-> "LB2", title |-> "Road Act",
      last_action |-> "Vetoed", session |-> Null, completed |-> 1 ] }

\* what the GET of getBill for bill_id can come to
GetBillResponses(bill_id) ==
  { [kind |-> "transport"], [kind |-> "malformed"],
    [kind |-> "json", status |-> "ERROR"], [kind |-> "json", status |-> "OK"] }
  \cup { [kind |-> "json", status |-> "OK", bill |-> d] :
           d \in {x \in SessionDetails : x.bill_id = bill_id} }

\* get_bill: the bill, None, or an exception
get_bill(resp) ==
  IF resp.kind = "transport" THEN [raised |-> TRUE, found |-> FALSE]
  ELSE IF resp.kind = "malformed" THEN [raised |-> TRUE, found |-> FALSE]
  ELSE IF resp.status = "OK" /\ "bill" \in DOMAIN resp
       THEN [raised |-> FALSE, found |-> TRUE, detail |-> resp.bill]
       ELSE [raised |-> FALSE, found |-> FALSE]

(* ----------------------------- session store --------------------------- *)
\* most tracked bills in a session
MaxRecords == 3

\* lines 250-256 with the flat row appended only
AddRecordFlatOnly(st, detail) ==
  [st EXCEPT !.flat = Append(@, process_bill(detail).flat),
             !.fetched = Append(@, detail)]

\* lines 250-256 with the summary row appended only
AddRecordSummaryOnly(st, detail) ==
  [st EXCEPT !.summary = Append(@, process_bill(detail).summary),
             !.fetched = Append(@, detail)]

\* lines 250-256: project the detail and append one row to each collection
AddRecord(st, detail) ==
  [st EXCEPT !.flat = Append(@, process_bill(detail).flat),
             !.summary = Append(@, process_bill(detail).summary),
             !.fetched = Append(@, detail)]

RECURSIVE AddLoop(_, _, _, _)
\* lines 246-256: the loop over the chosen rows from the i-th on; outs[i] is
\* the response to the i-th get_bill; an exception ends the loop
AddLoop(st, chosen, outs, i) ==
  IF i > Len(chosen) THEN st
  ELSE LET g == get_bill(outs[i])
       IN  IF g.raised THEN [st EXCEPT !.raised = TRUE, !.error = outs[i].kind]
           ELSE IF g.found THEN AddLoop(AddRecord(st, g.detail), chosen, outs, i + 1)
           ELSE AddLoop([st EXCEPT !.error = "upstream"], chosen, outs, i + 1)

\* the selections of st.multiselect: distinct row indices in any order
Selections(n) == UNION { Orderings(S) : S \in SUBSET (1..n) }

(* --------------------- the variables of a call not made ---------------- *)
IdleNormalize ==
  /\ nbill = <<>> /\ nstate = "Texas" /\ npc = "idle"
  /\ nclean = <<>> /\ nmid = <<>> /\ nhits = 0 /\ nout = <<>> /\ nout2 = <<>>

IdleSingle ==
  /\ qquery = <<>> /\ qresp = [kind |-> "none"] /\ qpc = "idle" /\ qresult = NotFound

IdleId ==
  /\ sbill = <<>> /\ sstate = "Texas" /\ spc = "idle" /\ variants = <<>>
  /\ idx = 0 /\ calls = <<>> /\ sresult = NotFound

IdleProject ==
  /\ pdetail = Null /\ ppc = "idle" /\ pflat = Null /\ psummary = Null

IdleSession ==
  /\ flat_data = <<>> /\ summary_data = <<>> /\ search_results = <<>>
  /\ lastAction = "idle" /\ lastError = "none" /\ fetched = <<>>
  /\ cleared = [flat |-> 0, summary |-> 0, results |-> 0]

(* ------------------- normalize_bill applied to an input ---------------- *)
InitNormalize ==
  /\ nbill \in SeqsUpTo(BillChars, MaxBillLen)
  /\ nstate \in States
  /\ npc = "input"
  /\ nclean = <<>> /\ nmid = <<>> /\ nhits = 0 /\ nout = <<>> /\ nout2 = <<>>
  /\ IdleSingle /\ IdleId /\ IdleProject /\ IdleSession

\* one call normalize_bill(nbill, nstate), its intermediate strings kept, and
\* a second call on the result
Normalize ==
  /\ npc = "input"
  /\ npc' = "normalized"
  /\ nclean' = CleanStep(nbill)
  /\ nmid' = ApplyPrefixes(CleanStep(nbill), PrefixTable(nstate)).bill
  /\ nhits' = ApplyPrefixes(CleanStep(nbill), PrefixTable(nstate)).hits
  /\ nout' = normalize_bill(nbill, nstate)
  /\ nout2' = normalize_bill(normalize_bill(nbill, nstate), nstate)
  /\ UNCHANGED <<nbill, nstate, singleVars, idVars, projVars, sessionVars>>

SpecNormalize == InitNormalize /\ [][Normalize]_vars

(* ---------------------- one call of search_bill_single ----------------- *)
\* the queries search_bill_single is tried on
SingleQueries ==
  { <<>>, <<"1">>, <<"H","b","1">>, <<"H","B"," ","1">>, <<"h","b","1","0">>,
    <<"S","B","1">> }

InitSingle ==
  /\ qquery \in SingleQueries
  /\ qresp = [kind |-> "none"] /\ qpc = "call" /\ qresult = NotFound
  /\ IdleNormalize /\ IdleId /\ IdleProject /\ IdleSession

\* one call search_bill_single(state_abbr, qquery) and the response it got
SearchSingle ==
  /\ qpc = "call"
  /\ \E resp \in Responses(MaxItems) :
       /\ qresp' = resp
       /\ qresult' = search_bill_single(resp, qquery)
  /\ qpc' = IF qresult'.raised THEN "raised" ELSE "returned"
  /\ UNCHANGED <<qquery, normVars, idVars, projVars, sessionVars>>

SpecSingle == InitSingle /\ [][SearchSingle]_vars

(* ------------------------ one call of search_bill_id ------------------- *)
InitId ==
  /\ sbill \in SeqsUpTo(SearchChars, MaxSearchLen)
  /\ sstate \in SearchStates
  /\ spc = "call" /\ variants = <<>> /\ idx = 0 /\ calls = <<>> /\ sresult = NotFound
  /\ IdleNormalize /\ IdleSingle /\ IdleProject /\ IdleSession

\* lines 107-108: the variants, listed in the order the set yields them
BuildVariants ==
  /\ spc = "call"
  /\ variants' \in Orderings(VariantSet(sbill, sstate))
  /\ idx' = 1
  /\ spc' = "loop"
  /\ UNCHANGED <<sbill, sstate, calls, sresult>>
  /\ UNCHANGED <<normVars, singleVars, projVars, sessionVars>>

\* lines 109-112: one iteration, the search of variants[idx]
SearchVariant ==
  /\ spc = "loop" /\ idx <= Len(variants)
  /\ \E resp \in VariantResponses :
       LET r == search_bill_single(resp, variants[idx])
       IN  /\ calls' = Append(calls, [query |-> variants[idx], result |-> r])
           /\ IF r.raised THEN spc' = "raised" /\ sresult' = r /\ idx' = idx
              ELSE IF Truthy(r) THEN spc' = "returned" /\ sresult' = r /\ idx' = idx
              ELSE spc' = "loop" /\ idx' = idx + 1 /\ sresult' = sresult
  /\ UNCHANGED <<sbill, sstate, variants>>
  /\ UNCHANGED <<normVars, singleVars, projVars, sessionVars>>

\* line 113: every variant missed
VariantsExhausted ==
  /\ spc = "loop" /\ idx > Len(variants)
  /\ spc' = "returned"
  /\ sresult' = NotFound
  /\ UNCHANGED <<sbill, sstate, variants, idx, calls>>
  /\ UNCHANGED <<normVars, singleVars, projVars, sessionVars>>

NextId == BuildVariants \/ SearchVariant \/ VariantsExhausted

SpecId == InitId /\ [][NextId]_vars

(* ------------------------- one call of process_bill -------------------- *)
InitProject ==
  /\ pdetail \in ProjectDetails
  /\ ppc = "call" /\ pflat = Null /\ psummary = Null
  /\ IdleNormalize /\ IdleSingle /\ IdleId /\ IdleSession

\* flat_row, summary_row = process_bill(pdetail)
Project ==
  /\ ppc = "call"
  /\ ppc' = "returned"
  /\ pflat' = process_bill(pdetail).flat
  /\ psummary' = process_bill(pdetail).summary
  /\ UNCHANGED <<pdetail, normVars, singleVars, idVars, sessionVars>>

SpecProject == InitProject /\ [][Project]_vars

(* ------------------------------- the session --------------------------- *)
\* lines 53-58: the three empty frames of a new session
Init ==
  /\ flat_data = <<>> /\ summary_data = <<>> /\ search_results = <<>>
  /\ lastAction = "start" /\ lastError = "none" /\ fetched = <<>>
  /\ cleared = [flat |-> 0, summary |-> 0, results |-> 0]
  /\ IdleNormalize /\ IdleSingle /\ IdleId /\ IdleProject

\* the reset with line 191 left out
ResetKeepsResults ==
  /\ flat_data' = <<>>
  /\ summary_data' = <<>>
  /\ UNCHANGED search_results
  /\ lastAction' = "reset" /\ lastError' = "none" /\ fetched' = <<>>
  /\ cleared' = [flat |-> Len(flat_data), summary |-> Len(summary_data),
                 results |-> Len(search_results)]
  /\ UNCHANGED <<normVars, singleVars, idVars, projVars>>

\* lines 188-192: the run of the script with "Reset All Data" pressed;
\* cleared keeps the sizes of what the reset found
ResetAllData ==
  /\ flat_data' = <<>>
  /\ summary_data' = <<>>
  /\ search_results' = <<>>
  /\ lastAction' = "reset" /\ lastError' = "none" /\ fetched' = <<>>
  /\ cleared' = [flat |-> Len(flat_data), summary |-> Len(summary_data),
                 results |-> Len(search_results)]
  /\ UNCHANGED <<normVars, singleVars, idVars, projVars>>

\* lines 217-227: the run of the script with "Search" pressed
SearchByKeyword ==
  /\ \E kw \in Keywords :
       IF strip(kw) = <<>>
       THEN /\ lastError' = "validation"
            /\ UNCHANGED search_results
       ELSE \E kw_state_abbr \in KeywordStates, resp \in KeywordResponses :
              LET r == search_bills_by_keyword(kw_state_abbr, resp, max_results)
              IN  IF r.raised
                  THEN /\ lastError' = "transport"
                       /\ UNCHANGED search_results
                  ELSE /\ search_results' = r.rows
                       /\ lastError' =
                            IF resp.kind = "malformed" \/ resp.status # "OK"
                            THEN "upstream" ELSE "none"
  /\ lastAction' = "search" /\ fetched' = <<>>
  /\ cleared' = [flat |-> 0, summary |-> 0, results |-> 0]
  /\ UNCHANGED <<flat_data, summary_data>>
  /\ UNCHANGED <<normVars, singleVars, idVars, projVars>>

\* lines 236-259: the run of the script with "Add selected results" pressed;
\* an exception of get_bill ends the run before line 258
AddSelectedResults ==
  /\ search_results # <<>>
  /\ \E chosen \in Selections(Len(search_results)) :
       /\ Len(flat_data) + Len(chosen) <= MaxRecords
       /\ \E outs \in [1..Len(chosen) ->
                        UNION {GetBillResponses(b) : b \in BillIds}] :
            /\ \A i \in 1..Len(chosen) :
                 outs[i] \in GetBillResponses(search_results[chosen[i]].bill_id)
            /\ LET st == AddLoop([flat |-> flat_data, summary |-> summary_data,
                                  fetched |-> <<>>, raised |-> FALSE,
                                  error |-> "none"], chosen, outs, 1)
               IN  /\ flat_data' = st.flat
                   /\ summary_data' = st.summary
                   /\ fetched' = st.fetched
                   /\ lastError' = st.error
                   /\ search_results' = IF st.raised THEN search_results ELSE <<>>
  /\ lastAction' = "add"
  /\ cleared' = [flat |-> 0, summary |-> 0, results |-> 0]
  /\ UNCHANGED <<normVars, singleVars, idVars, projVars>>

Next == ResetAllData \/ SearchByKeyword \/ AddSelectedResults

Spec == Init /\ [][Next]_vars

(* -------------------------------- properties --------------------------- *)
\* C1: in every session state the flat and the summary collection have the
\* same length, and the rows at each index are the two projections of one
\* bill detail, so they agree on state, bill_number and title
AlignedCollections ==
  /\ Len(flat_data) = Len(summary_data)
  /\ \A i \in 1..Len(flat_data) :
       /\ flat_data[i].state = summary_data[i].state
       /\ flat_data[i].bill_number = summary_data[i].bill_number
       /\ flat_data[i].title = summary_data[i].title
       /\ \E d \in SessionDetails :
            /\ flat_data[i] = process_bill(d).flat
            /\ summary_data[i] = process_bill(d).summary

\* C1 case: two different bills tracked after an add in which a fetch failed
AlignedAfterMixedAdd ==
  /\ lastAction = "add" /\ lastError = "upstream"
  /\ Len(flat_data) >= 2
  /\ flat_data[1].bill_id # flat_data[2].bill_id

\* the flat rows of the bills fetched by the last run
FetchedFlat == [i \in 1..Len(fetched) |-> process_bill(fetched[i]).flat]
\* the summary rows of the bills fetched by the last run
FetchedSummary == [i \in 1..Len(fetched) |-> process_bill(fetched[i]).summary]

\* C2 as stated: a run that hits an error (validation, upstream, transport)
\* leaves the flat and the summary collection as they were before it
NoWriteOnErrorRun ==
  [][lastError' # "none" =>
       flat_data' = flat_data /\ summary_data' = summary_data]_vars

\* C2 amended: a run appends to the two collections exactly the projections
\* of the bills its fetches returned, pairwise and in order; a fetch that
\* fails appends nothing, and a search or a validation error writes neither
PairsOnlyForFetchedBills ==
  [][/\ lastAction' = "add" =>
          /\ flat_data' = flat_data \o FetchedFlat'
          /\ summary_data' = summary_data \o FetchedSummary'
     /\ lastAction' = "search" =>
          /\ fetched' = <<>>
          /\ flat_data' = flat_data /\ summary_data' = summary_data]_vars

\* C2 case: an add that fetched one bill and then hit an exception
PartialAddThenException ==
  /\ lastAction = "add" /\ lastError \in {"transport", "malformed"}
  /\ Len(fetched) >= 1
  /\ search_results # <<>>

\* C3: after the reset, whatever it found, the three collections are empty
ResetEmptiesAll ==
  lastAction = "reset" =>
    flat_data = <<>> /\ summary_data = <<>> /\ search_results = <<>>

\* C3 case: a reset that found tracked bills and pending search results
ResetOfFilledSession ==
  lastAction = "reset" /\ cleared.flat >= 2 /\ cleared.results >= 1

\* C4: normalize_bill is idempotent
NormalizeIdempotent == npc = "normalized" => nout2 = nout

\* C5: a non-OK status and a body that is not JSON both make the single-bill
\* search return (None, None), it never raises
UpstreamFailureIsNotFound ==
  ( /\ qpc # "call"
    /\ \/ qresp.kind = "malformed"
       \/ qresp.kind = "json" /\ qresp.status # "OK" )
  => qresult = NotFound

\* the items of the response search_bill_single got
QItems == iter_search_items(qresp.searchresult)
\* the indices of the items whose bill number equals the query, both
\* stripped of non-alphanumerics and upper-cased
QExact ==
  { i \in 1..Len(QItems) :
      normalize_num(QItems[i].bill_number) = normalize_num(qquery) }

\* C6: on a response with items the pick is an exact match whenever there is
\* one, and an item of the response otherwise
ExactMatchPreferred ==
  (qpc = "returned" /\ qresp.kind = "json" /\ qresp.status = "OK" /\ QItems # <<>>)
  => /\ qresult.found
     /\ QExact # {} => \E i \in QExact : QItems[i] = qresult.cand
     /\ QExact = {} => \E i \in 1..Len(QItems) : QItems[i] = qresult.cand

\* C6 case: an exact match picked over an item of higher relevance
ExactBeatsMoreRelevant ==
  /\ qpc = "returned" /\ qresult.found
  /\ \E i \in QExact : QItems[i] = qresult.cand
  /\ \E j \in (1..Len(QItems)) \ QExact :
       RelevanceKey(QItems[j]) > RelevanceKey(qresult.cand)

\* the pool the pick is taken from: the exact matches, or all items
QPool == IF QExact # {} THEN QExact ELSE 1..Len(QItems)

\* C7: the pick has the highest relevance of the pool and, among the
\* candidates of that relevance, the latest last-action date
BestCandidatePicked ==
  (qpc = "returned" /\ qresult.found)
  => /\ \E i \in QPool : QItems[i] = qresult.cand
     /\ \A i \in QPool :
          /\ RelevanceKey(QItems[i]) <= RelevanceKey(qresult.cand)
          /\ RelevanceKey(QItems[i]) = RelevanceKey(qresult.cand)
               => DateKey(QItems[i]) <= DateKey(qresult.cand)

\* C7 case: two candidates of equal relevance, the later-dated one listed
\* second and picked
TieBrokenByDate ==
  /\ qpc = "returned" /\ qresult.found
  /\ Len(QItems) = 2 /\ QPool = {1, 2}
  /\ RelevanceKey(QItems[1]) = RelevanceKey(QItems[2])
  /\ DateKey(QItems[1]) < DateKey(QItems[2])
  /\ qresult.cand = QItems[2]

\* the indices of the sponsors whose party code is code
WithParty(sp, code) ==
  { i \in 1..Len(sp) : "party" \in DOMAIN sp[i] /\ sp[i].party = code }

\* C8: dem_sponsors counts the sponsors with party "D", rep_sponsors those
\* with party "R", and no sponsor is counted in both or without either code
SponsorTally ==
  ppc = "returned" =>
    /\ psummary.dem_sponsors = Cardinality(WithParty(SponsorsOf(pdetail), "D"))
    /\ psummary.rep_sponsors = Cardinality(WithParty(SponsorsOf(pdetail), "R"))
    /\ psummary.dem_sponsors + psummary.rep_sponsors <= Len(SponsorsOf(pdetail))

\* C8 case: sponsors D, D, R, I tallied as 2 and 1
TallyOfFourSponsors ==
  /\ ppc = "returned"
  /\ SponsorsOf(pdetail) =
       <<[party |-> "D"], [party |-> "D"], [party |-> "R"], [party |-> "I"]>>
  /\ psummary.dem_sponsors = 2 /\ psummary.rep_sponsors = 1

MatchingEntries(s) ==
  { i \in 1..Len(PrefixTable(nstate)) : StartsWith(s, PrefixTable(nstate)[i][1]) }

\* C10: at most one table entry substitutes; the string after the table is
\* the cleaned string with its one leading wrong prefix replaced by the
\* counterpart (the rest untouched), or the cleaned string itself; with
\* HB -> LB, "HB1" becomes "LB 1"
AtMostOnePrefixSubstitution ==
  npc = "normalized" =>
    /\ nhits <= 1
    /\ nhits = Cardinality(MatchingEntries(nclean))
    /\ MatchingEntries(nclean) = {} => nmid = nclean
    /\ \A i \in MatchingEntries(nclean) :
         nmid = PrefixTable(nstate)[i][2]
                  \o SubSeq(nclean, Len(PrefixTable(nstate)[i][1]) + 1, Len(nclean))
    /\ (nbill = <<"H","B","1">> /\ nstate = "Nebraska") => nout = <<"L","B"," ","1">>

\* C10 case: a bill with the wrong prefix twice, only the leading one replaced
LeadingPrefixReplacedOnce ==
  /\ npc = "normalized" /\ nstate = "Nebraska"
  /\ nclean = <<"H","B","H","B">>
  /\ nmid = <<"L","B","H","B">>

====
